---- MODULE Spec2Model ----
(***************************************************************************)
(* Form pages (Signin, Signup, InputDemo, PasswordInputDemo), the Input    *)
(* and PasswordInput field controls and the password strength estimator.   *)
(* A text is a sequence of one-character strings.                          *)
(***************************************************************************)
EXTENDS Integers, Sequences, FiniteSets, TLC

VARIABLES
    \* a form page
    page, formData, errors, last, nEvents,
    \* a field control
    component, props, showPassword, isFocused, value, prevValue, clicks,
    fieldLast, classes, elementFocused,
    \* a button
    buttonProps, onClickCalls, nClicks,
    \* the field controls of a page
    instances

formVars == <<page, formData, errors, last, nEvents>>
fieldVars == <<component, props, showPassword, isFocused, value, prevValue, clicks,
               fieldLast, classes, elementFocused>>
buttonVars == <<buttonProps, onClickCalls, nClicks>>
vars == <<page, formData, errors, last, nEvents,
          component, props, showPassword, isFocused, value, prevValue, clicks,
          fieldLast, classes, elementFocused,
          buttonProps, onClickCalls, nClicks,
          instances>>

-----------------------------------------------------------------------------
(* Bounds of the model *)

\* number of events (change, submit, validate, clear) delivered to a page
MaxEvents == 4
\* length of the generated texts typed into a field before a validation
MaxLen == 6
\* number of clicks on the visibility toggle of a field control
MaxClicks == 4
\* length of the longest password given to the strength estimator
MaxPwLen == 13
\* length of the passwords enumerated in every order of characters
MaxShortPw == 2
MaxButtonClicks == 3

-----------------------------------------------------------------------------
(* Characters and texts *)

Lower == {"a","b","c","d","e","f","g","h","i","j","k","l","m",
          "n","o","p","q","r","s","t","u","v","w","x","y","z"}
Upper == {"A","B","C","D","E","F","G","H","I","J","K","L","M",
          "N","O","P","Q","R","S","T","U","V","W","X","Y","Z"}
Digit == {"0","1","2","3","4","5","6","7","8","9"}
\* the character U+2028 LINE SEPARATOR, which an input element keeps in its value
LS == "U+2028"
\* characters matched by \s (and stripped by trim)
Whitespace == {" ", "\t", "\n", LS}
\* characters not matched by "." in a regular expression
LineTerminator == {"\n", LS}

\* String.prototype.trim
RECURSIVE trimStart(_)
trimStart(s) ==
    IF s # <<>> /\ Head(s) \in Whitespace THEN trimStart(Tail(s)) ELSE s

RECURSIVE trimEnd(_)
trimEnd(s) ==
    IF s # <<>> /\ s[Len(s)] \in Whitespace
    THEN trimEnd(SubSeq(s, 1, Len(s) - 1))
    ELSE s

trim(s) == trimEnd(trimStart(s))

\* !s.trim() : the trimmed text is the empty string
isBlankNoTrim(s) == s = <<>>
isBlank(s) == trim(s) = <<>>

\* the pattern without its '.' part, /\S+@\S+/
emailPatternNoDot(s) ==
    \E a \in 1..Len(s) :
        /\ s[a] = "@"
        /\ a > 1
        /\ s[a - 1] \notin Whitespace
        /\ a < Len(s)
        /\ s[a + 1] \notin Whitespace

\* the anchored pattern, /^\S+@\S+\.\S+$/
emailPatternAnchored(s) ==
    /\ \A k \in 1..Len(s) : s[k] \notin Whitespace
    /\ \E a \in 1..Len(s), d \in 1..Len(s) :
          s[a] = "@" /\ a > 1 /\ d >= a + 2 /\ s[d] = "." /\ d < Len(s)

\* /\S+@\S+\.\S+/.test(s) : an unanchored search for a non-space character,
\* '@', a non-empty run of non-space characters, '.', a non-space character
emailPattern(s) ==
    \E a \in 1..Len(s), d \in 1..Len(s) :
        /\ s[a] = "@"
        /\ a > 1
        /\ s[a - 1] \notin Whitespace
        /\ d >= a + 2
        /\ s[d] = "."
        /\ \A k \in (a + 1)..(d - 1) : s[k] \notin Whitespace
        /\ d < Len(s)
        /\ s[d + 1] \notin Whitespace

\* the part of s from position i up to the next line terminator
RECURSIVE restOfLine(_, _)
restOfLine(s, i) ==
    IF i > Len(s) \/ s[i] \in LineTerminator
    THEN <<>>
    ELSE <<s[i]>> \o restOfLine(s, i + 1)

hasChar(s, class) == \E k \in 1..Len(s) : s[k] \in class

\* the pattern without its digit part, /(?=.*[a-z])(?=.*[A-Z])/
mixedPatternNoDigit(s) ==
    \E i \in 1..(Len(s) + 1) :
        LET rest == restOfLine(s, i)
        IN  hasChar(rest, Lower) /\ hasChar(rest, Upper)
\* /(?=.*[a-z])(?=.*[A-Z])(?=.*\d)/.test(s)
mixedPattern(s) ==
    \E i \in 1..(Len(s) + 1) :
        LET rest == restOfLine(s, i)
        IN  hasChar(rest, Lower) /\ hasChar(rest, Upper) /\ hasChar(rest, Digit)

-----------------------------------------------------------------------------
(* JavaScript objects used as maps from field name to text *)

\* {}
EmptyMap == [k \in {} |-> ""]

\* { ...m, [k]: v }
Put(m, k, v) == [x \in (DOMAIN m) \cup {k} |-> IF x = k THEN v ELSE m[x]]

\* Object.keys(m)
Keys(m) == DOMAIN m

\* the truthiness of m[k] : undefined and '' are falsy
Truthy(m, k) == k \in DOMAIN m /\ m[k] # ""

-----------------------------------------------------------------------------
(* Form pages *)

Pages == {"Signin", "Signup", "InputDemo", "PasswordInputDemo"}

\* the keys of the page's formData (passwords in PasswordInputDemo)
FieldsOf(p) ==
    CASE p = "Signin" -> {"email", "password"}
      [] p = "Signup" -> {"name", "email", "password"}
      [] p = "InputDemo" ->
            {"name", "email", "password", "search", "message", "website", "phone"}
      [] p = "PasswordInputDemo" -> {"basic", "withStrength", "withIcon", "form"}

\* useState({ email: "", password: "" }) and the like
InitialData(p) == [f \in FieldsOf(p) |-> <<>>]

\* if (errors[field]) setErrors({ ...errors, [field]: "" })
ClearErrorKeep(errs, field) == errs
ClearErrorDelete(errs, field) ==
    IF Truthy(errs, field)
    THEN [x \in (DOMAIN errs) \ {field} |-> errs[x]]
    ELSE errs
ClearErrorAlways(errs, field) == Put(errs, field, "")
ClearError(errs, field) ==
    IF Truthy(errs, field) THEN Put(errs, field, "") ELSE errs

\* let newErrors = {} : a validation starts from an empty map
NewErrorsStale == errors
NewErrors == EmptyMap

\* the minimum password length of Signup and InputDemo
PasswordMin == 6
\* the minimum password length of PasswordInputDemo
DemoPasswordMin == 8

\* text.length < min
shorterThanOrEqual(text, min) == Len(text) <= min
shorterThan(text, min) == Len(text) < min

\* { ...formData, [field]: e.target.value }
SetValueFromMount(data, field, text) ==
    [g \in DOMAIN data |-> IF g = field THEN text ELSE <<>>]
SetValue(data, field, text) == [data EXCEPT ![field] = text]

\* Signin.handleSubmit : newErrors
SigninValidate(data) ==
    LET e0 == NewErrors
        e1 == IF isBlank(data.email) THEN Put(e0, "email", "Email is required")
              ELSE IF ~emailPattern(data.email) THEN Put(e0, "email", "Invalid email")
              ELSE e0
        e2 == IF isBlank(data.password)
              THEN Put(e1, "password", "Password is required")
              ELSE e1
    IN  e2

\* a validation that stops at the first failing field
SignupValidateFirstOnly(data) ==
    IF isBlank(data.name) THEN Put(NewErrors, "name", "Name is required")
    ELSE IF isBlank(data.email) THEN Put(NewErrors, "email", "Email is required")
    ELSE IF ~emailPattern(data.email) THEN Put(NewErrors, "email", "Invalid email")
    ELSE IF isBlank(data.password)
    THEN Put(NewErrors, "password", "Password is required")
    ELSE IF shorterThan(data.password, PasswordMin)
    THEN Put(NewErrors, "password", "Min 6 characters")
    ELSE NewErrors

\* Signup.handleSubmit : newErrors
SignupValidate(data) ==
    LET e0 == NewErrors
        e1 == IF isBlank(data.name) THEN Put(e0, "name", "Name is required") ELSE e0
        e2 == IF isBlank(data.email) THEN Put(e1, "email", "Email is required")
              ELSE IF ~emailPattern(data.email) THEN Put(e1, "email", "Invalid email")
              ELSE e1
        e3 == IF isBlank(data.password)
              THEN Put(e2, "password", "Password is required")
              ELSE IF shorterThan(data.password, PasswordMin)
              THEN Put(e2, "password", "Min 6 characters")
              ELSE e2
    IN  e3

\* InputDemo.validateForm : newErrors
InputDemoValidate(data) ==
    LET e0 == NewErrors
        e1 == IF isBlank(data.name) THEN Put(e0, "name", "Name is required") ELSE e0
        e2 == IF isBlank(data.email) THEN Put(e1, "email", "Email is required")
              ELSE IF ~emailPattern(data.email)
              THEN Put(e1, "email", "Please enter a valid email")
              ELSE e1
        e3 == IF isBlank(data.password)
              THEN Put(e2, "password", "Password is required")
              ELSE IF shorterThan(data.password, PasswordMin)
              THEN Put(e2, "password", "Password must be at least 6 characters")
              ELSE e2
    IN  e3

\* PasswordInputDemo.validatePasswords : newErrors
PasswordDemoValidate(data) ==
    LET e0 == NewErrors
        e1 == IF isBlank(data.form) THEN Put(e0, "form", "Password is required")
              ELSE IF shorterThan(data.form, DemoPasswordMin)
              THEN Put(e0, "form", "Password must be at least 8 characters")
              ELSE IF ~mixedPattern(data.form)
              THEN Put(e0, "form",
                       "Password must contain uppercase, lowercase, and numbers")
              ELSE e0
    IN  e1

\* Object.keys(newErrors).length === 0
IsSuccessStale(newErrors) == Cardinality(Keys(errors)) = 0
IsSuccess(newErrors) == Cardinality(Keys(newErrors)) = 0

-----------------------------------------------------------------------------
(* Texts carried by change events *)

JohnExample ==
    <<"j","o","h","n","@","e","x","a","m","p","l","e",".","c","o","m">>

\* characters of the generated texts
Alphabet == {"a", "@", ".", " "}

\* every text over Alphabet of length at most n
TextsUpTo(n) == UNION {[1..k -> Alphabet] : k \in 0..n}

\* the texts typed into the fields of a page : empty, blank, a name, an
\* email, a password of five characters and one of eight
Samples ==
    { <<>>,
      <<" "," "," ">>,
      <<"j","o","h","n">>,
      JohnExample,
      <<"a","b","c","d","e">>,
      <<"A","b","c","d","e","f","g","1">> }

\* one character of each class
ClassChars == {"a", "A", "1", "#"}

\* the characters of a non-empty set, in a fixed order
RECURSIVE SeqOf(_)
SeqOf(S) ==
    IF S = {} THEN <<>>
    ELSE LET c == CHOOSE x \in S : TRUE IN <<c>> \o SeqOf(S \ {c})

\* the text of length n that repeats the characters of q in turn
Cycle(q, n) == [i \in 1..n |-> q[((i - 1) % Len(q)) + 1]]

\* for every set of classes and every length, a password with exactly those
\* classes; and every password of at most MaxShortPw characters
Passwords ==
    {Cycle(SeqOf(S), n) :
        S \in (SUBSET ClassChars) \ {{}}, n \in 1..MaxPwLen}
    \cup UNION {[1..k -> ClassChars] : k \in 0..MaxShortPw}

\* every password of at most MaxShortPw characters
ShortPasswords == UNION {[1..k -> ClassChars] : k \in 0..MaxShortPw}

\* the passwords, and each of them with a line separator and a short password
\* after it
DemoPasswords ==
    Passwords
    \cup {password \o <<LS>> \o short :
             password \in Passwords, short \in ShortPasswords}

\* an email address with other words before and after it
EmailExamples == { <<"x", " ", "y", "@", "z", ".", "w", " ", "q">> }

-----------------------------------------------------------------------------
(* Event handlers of the form pages *)

\* what the most recent handler was given, what it found and what it logged
Note(op, field, text, logged) ==
    [op |-> op, field |-> field, text |-> text, logged |-> logged,
     hadError |-> Truthy(errors, field), prevKeys |-> Keys(errors)]

Mounted ==
    [op |-> "mount", field |-> "", text |-> <<>>, logged |-> FALSE,
     hadError |-> FALSE, prevKeys |-> {}]

\* a page right after its mount
InitPage ==
    /\ page \in Pages
    /\ formData = InitialData(page)
    /\ errors = EmptyMap
    /\ last = Mounted
    /\ nEvents = 0
    /\ instances = <<>>

\* what the most recent handler of a field control was and the callbacks of
\* the caller it invoked, in order
Did(op, calls) == [op |-> op, calls |-> calls, error |-> props.error]

FieldMounted == [op |-> "mount", calls |-> <<>>, error |-> "<undefined>"]

\* no button is under observation
NoButton ==
    /\ buttonProps = [type |-> "none"]
    /\ onClickCalls = <<>>
    /\ nClicks = 0

\* no field control is under observation
NoField ==
    /\ component = "none"
    /\ props = [type |-> "none"]
    /\ showPassword = FALSE
    /\ isFocused = FALSE
    /\ value = <<>>
    /\ prevValue = <<>>
    /\ clicks = 0
    /\ fieldLast = FieldMounted
    /\ classes = <<>>
    /\ elementFocused = FALSE

\* no page is under observation
NoPage ==
    /\ page = "none"
    /\ formData = EmptyMap
    /\ errors = EmptyMap
    /\ last = Mounted
    /\ nEvents = 0
    /\ instances = <<>>

Init == InitPage /\ NoField /\ NoButton

SigninHandleChange(field, text) ==
    /\ page = "Signin"
    /\ field \in {"email", "password"}
    /\ nEvents < MaxEvents
    /\ formData' = SetValue(formData, field, text)
    /\ errors' = ClearError(errors, field)
    /\ last' = Note("change", field, text, FALSE)
    /\ nEvents' = nEvents + 1
    /\ UNCHANGED <<page, fieldVars, buttonVars, instances>>

\* the handler as it runs once a submit event is delivered to the form
SigninHandleSubmit ==
    /\ page = "Signin"
    /\ nEvents < MaxEvents
    /\ LET newErrors == SigninValidate(formData)
       IN  /\ errors' = newErrors
           /\ last' = Note("submit", "", <<>>, IsSuccess(newErrors))
    /\ nEvents' = nEvents + 1
    /\ UNCHANGED <<page, formData, fieldVars, buttonVars, instances>>

SignupHandleChange(field, text) ==
    /\ page = "Signup"
    /\ field \in {"name", "email", "password"}
    /\ nEvents < MaxEvents
    /\ formData' = SetValue(formData, field, text)
    /\ errors' = ClearError(errors, field)
    /\ last' = Note("change", field, text, FALSE)
    /\ nEvents' = nEvents + 1
    /\ UNCHANGED <<page, fieldVars, buttonVars, instances>>

SignupHandleSubmit ==
    /\ page = "Signup"
    /\ nEvents < MaxEvents
    /\ LET newErrors == SignupValidate(formData)
       IN  /\ errors' = newErrors
           /\ last' = Note("submit", "", <<>>, IsSuccess(newErrors))
    /\ nEvents' = nEvents + 1
    /\ UNCHANGED <<page, formData, fieldVars, buttonVars, instances>>

InputDemoHandleInputChange(field, text) ==
    /\ page = "InputDemo"
    /\ field \in {"search", "name", "email", "password", "phone", "website", "message"}
    /\ nEvents < MaxEvents
    /\ formData' = SetValue(formData, field, text)
    /\ errors' = ClearError(errors, field)
    /\ last' = Note("change", field, text, FALSE)
    /\ nEvents' = nEvents + 1
    /\ UNCHANGED <<page, fieldVars, buttonVars, instances>>

\* the clear icon of the search field is rendered only while search is non-empty
InputDemoHandleClearSearch ==
    /\ page = "InputDemo"
    /\ formData.search # <<>>
    /\ nEvents < MaxEvents
    /\ formData' = SetValue(formData, "search", <<>>)
    /\ last' = Note("clearSearch", "search", <<>>, FALSE)
    /\ nEvents' = nEvents + 1
    /\ UNCHANGED <<page, errors, fieldVars, buttonVars, instances>>

InputDemoValidateForm ==
    /\ page = "InputDemo"
    /\ nEvents < MaxEvents
    /\ errors' = InputDemoValidate(formData)
    /\ last' = Note("submit", "", <<>>, FALSE)
    /\ nEvents' = nEvents + 1
    /\ UNCHANGED <<page, formData, fieldVars, buttonVars, instances>>

\* Clear Form : both setters in one click handler
InputDemoClearFormKeepsErrors ==
    /\ page = "InputDemo"
    /\ nEvents < MaxEvents
    /\ formData' = InitialData("InputDemo")
    /\ last' = Note("clear", "", <<>>, FALSE)
    /\ nEvents' = nEvents + 1
    /\ UNCHANGED <<page, errors, fieldVars, buttonVars, instances>>
InputDemoClearForm ==
    /\ page = "InputDemo"
    /\ nEvents < MaxEvents
    /\ formData' = InitialData("InputDemo")
    /\ errors' = EmptyMap
    /\ last' = Note("clear", "", <<>>, FALSE)
    /\ nEvents' = nEvents + 1
    /\ UNCHANGED <<page, fieldVars, buttonVars, instances>>

PasswordDemoHandlePasswordChange(field, text) ==
    /\ page = "PasswordInputDemo"
    /\ field \in {"basic", "withIcon", "withStrength", "form"}
    /\ nEvents < MaxEvents
    /\ formData' = SetValue(formData, field, text)
    /\ errors' = ClearError(errors, field)
    /\ last' = Note("change", field, text, FALSE)
    /\ nEvents' = nEvents + 1
    /\ UNCHANGED <<page, fieldVars, buttonVars, instances>>

PasswordDemoValidatePasswords ==
    /\ page = "PasswordInputDemo"
    /\ nEvents < MaxEvents
    /\ errors' = PasswordDemoValidate(formData)
    /\ last' = Note("submit", "", <<>>, FALSE)
    /\ nEvents' = nEvents + 1
    /\ UNCHANGED <<page, formData, fieldVars, buttonVars, instances>>

PasswordDemoClear ==
    /\ page = "PasswordInputDemo"
    /\ nEvents < MaxEvents
    /\ formData' = InitialData("PasswordInputDemo")
    /\ errors' = EmptyMap
    /\ last' = Note("clear", "", <<>>, FALSE)
    /\ nEvents' = nEvents + 1
    /\ UNCHANGED <<page, fieldVars, buttonVars, instances>>

\* a change of any field of the page
Change(field, text) ==
    \/ SigninHandleChange(field, text)
    \/ SignupHandleChange(field, text)
    \/ InputDemoHandleInputChange(field, text)
    \/ PasswordDemoHandlePasswordChange(field, text)

\* a submit or validate of the page
Submit ==
    \/ SigninHandleSubmit
    \/ SignupHandleSubmit
    \/ InputDemoValidateForm
    \/ PasswordDemoValidatePasswords

Next ==
    \/ \E field \in FieldsOf(page), text \in Samples : Change(field, text)
    \/ Submit
    \/ InputDemoHandleClearSearch
    \/ InputDemoClearForm
    \/ PasswordDemoClear

Spec == Init /\ [][Next]_vars

\* one change of one field after the mount, then a submit or validate
NextValidate ==
    \/ /\ nEvents = 0
       /\ \E field \in FieldsOf(page), text \in TextsUpTo(MaxLen) \cup Samples \cup DemoPasswords
                                             \cup EmailExamples :
              Change(field, text)
    \/ /\ nEvents = 1
       /\ Submit

SpecValidate == Init /\ [][NextValidate]_vars

-----------------------------------------------------------------------------
(* Password strength estimator *)

\* the score with the length bonus taking the place of the length base
strengthScoreBonusOnly(password) ==
    (IF Len(password) >= 12 THEN 10 ELSE IF Len(password) >= 8 THEN 25 ELSE 0)
    + (IF hasChar(password, Lower) THEN 15 ELSE 0)
    + (IF hasChar(password, Upper) THEN 15 ELSE 0)
    + (IF hasChar(password, Digit) THEN 15 ELSE 0)
    + (IF \E k \in 1..Len(password) :
             password[k] \notin (Lower \cup Upper \cup Digit)
       THEN 20 ELSE 0)

\* the score with a symbol worth as much as the length base
strengthScoreHeavySymbol(password) ==
    (IF Len(password) >= 8 THEN 25 ELSE 0)
    + (IF Len(password) >= 12 THEN 10 ELSE 0)
    + (IF hasChar(password, Lower) THEN 15 ELSE 0)
    + (IF hasChar(password, Upper) THEN 15 ELSE 0)
    + (IF hasChar(password, Digit) THEN 15 ELSE 0)
    + (IF \E k \in 1..Len(password) :
             password[k] \notin (Lower \cup Upper \cup Digit)
       THEN 25 ELSE 0)

\* the score without the points for a character that is no letter and no digit
strengthScoreNoSymbol(password) ==
    (IF Len(password) >= 8 THEN 25 ELSE 0)
    + (IF Len(password) >= 12 THEN 10 ELSE 0)
    + (IF hasChar(password, Lower) THEN 15 ELSE 0)
    + (IF hasChar(password, Upper) THEN 15 ELSE 0)
    + (IF hasChar(password, Digit) THEN 15 ELSE 0)

\* the score of a non-empty password : length checks, then character variety
strengthScore(password) ==
    (IF Len(password) >= 8 THEN 25 ELSE 0)
    + (IF Len(password) >= 12 THEN 10 ELSE 0)
    + (IF hasChar(password, Lower) THEN 15 ELSE 0)
    + (IF hasChar(password, Upper) THEN 15 ELSE 0)
    + (IF hasChar(password, Digit) THEN 15 ELSE 0)
    + (IF \E k \in 1..Len(password) :
             password[k] \notin (Lower \cup Upper \cup Digit)
       THEN 20 ELSE 0)

\* the bands with their upper limits included
strengthBandInclusive(score) ==
    IF score <= 30 THEN [score |-> score, label |-> "Weak", color |-> "bg-red-500"]
    ELSE IF score <= 60
    THEN [score |-> score, label |-> "Fair", color |-> "bg-yellow-500"]
    ELSE IF score <= 80
    THEN [score |-> score, label |-> "Good", color |-> "bg-blue-500"]
    ELSE [score |-> score, label |-> "Strong", color |-> "bg-green-500"]

\* the label and colour of a score
strengthBand(score) ==
    IF score < 30 THEN [score |-> score, label |-> "Weak", color |-> "bg-red-500"]
    ELSE IF score < 60
    THEN [score |-> score, label |-> "Fair", color |-> "bg-yellow-500"]
    ELSE IF score < 80
    THEN [score |-> score, label |-> "Good", color |-> "bg-blue-500"]
    ELSE [score |-> score, label |-> "Strong", color |-> "bg-green-500"]

calculatePasswordStrength(password) ==
    IF password = <<>>
    THEN [score |-> 0, label |-> "", color |-> ""]
    ELSE strengthBand(strengthScore(password))

-----------------------------------------------------------------------------
(* Field controls : Input and PasswordInput *)

InputTypes ==
    {"text", "email", "password", "number", "tel", "url", "search", "textarea"}

\* a prop the caller left out
Undefined == "<undefined>"

\* the truthiness of an optional string : undefined and '' are falsy
isTruthy(x) == x \notin {Undefined, ""}

\* a || b
orJS(a, b) == IF isTruthy(a) THEN a ELSE b

\* the error and helperText props : left out, empty or a text
ErrorTexts == {Undefined, "", "Required"}
HelperTexts == {Undefined, "", "Hint"}

\* the configurations of an Input; onLeftIconClick and onRightIconClick say
\* whether the caller supplied one
InputProps ==
    [type : InputTypes, disabled : BOOLEAN, leftIcon : BOOLEAN,
     rightIcon : BOOLEAN, showStrengthMeter : {FALSE},
     error : ErrorTexts, helperText : HelperTexts,
     onLeftIconClick : BOOLEAN, onRightIconClick : BOOLEAN,
     onFocus : BOOLEAN, onBlur : BOOLEAN]

\* the configurations of a PasswordInput : no type, no right icon and no icon
\* callbacks
PasswordInputProps ==
    [type : {"password"}, disabled : BOOLEAN, leftIcon : BOOLEAN,
     rightIcon : {FALSE}, showStrengthMeter : BOOLEAN,
     error : ErrorTexts, helperText : HelperTexts,
     onLeftIconClick : {FALSE}, onRightIconClick : {FALSE},
     onFocus : BOOLEAN, onBlur : BOOLEAN]

\* the texts a field control is given as its value
FieldTexts == {<<>>, <<"a">>}

\* a control right after its creation
InitField ==
    /\ NoPage
    /\ NoButton
    /\ fieldLast = FieldMounted
    /\ classes = <<>>
    /\ elementFocused = FALSE
    /\ component \in {"Input", "PasswordInput"}
    /\ props \in (IF component = "Input" THEN InputProps ELSE PasswordInputProps)
    /\ showPassword = FALSE
    /\ isFocused = FALSE
    /\ value = <<>>
    /\ prevValue = <<>>
    /\ clicks = 0

\* Input : actualType
actualType == IF props.type = "password" /\ showPassword THEN "text" ELSE props.type

\* PasswordInput : the type attribute of its input element
passwordInputType == IF showPassword THEN "text" ELSE "password"

\* the type attribute of the rendered single-line element
renderedType == IF component = "Input" THEN actualType ELSE passwordInputType

\* Input : the type guard that selects the render path
isTextareaPropsOrText(p) == p.type \in {"textarea", "text"}
isTextareaProps(p) == p.type = "textarea"

\* Input : the element renderInput returns
renderInput ==
    IF isTextareaProps(props)
    THEN [tag |-> "textarea", type |-> Undefined]
    ELSE [tag |-> "input", type |-> actualType]

\* the rendered control element of either component
controlElement ==
    IF component = "Input"
    THEN renderInput
    ELSE [tag |-> "input", type |-> passwordInputType]

\* Input : the paragraph under the control, Undefined when none is rendered
inputMessageHelperFirst(p) ==
    IF isTruthy(p.helperText) \/ isTruthy(p.error)
    THEN orJS(p.helperText, p.error)
    ELSE Undefined
inputMessage(p) ==
    IF isTruthy(p.helperText) \/ isTruthy(p.error)
    THEN orJS(p.error, p.helperText)
    ELSE Undefined

\* PasswordInput : the paragraph under the control
passwordInputMessage(p) ==
    IF isTruthy(p.helperText) \/ isTruthy(p.error)
    THEN orJS(p.error, p.helperText)
    ELSE Undefined

\* the message block of either component
messageBlock ==
    IF component = "Input" THEN inputMessage(props) ELSE passwordInputMessage(props)

\* PasswordInput : strength, recomputed at every render
strength ==
    IF props.showStrengthMeter
    THEN calculatePasswordStrength(value)
    ELSE [score |-> 0, label |-> "", color |-> ""]

\* !showPassword
toggledStuck(show) == TRUE
toggled(show) == ~show

\* Input : the trailing element is rendered
rightElementPresent(p) == p.rightIcon \/ p.type = "password"

\* Input : the click handler of the trailing element
rightIconHandlerCallerFirst(p) ==
    IF p.onRightIconClick \/ p.type # "password"
    THEN "onRightIconClick"
    ELSE "togglePasswordVisibility"
rightIconHandler(p) ==
    IF p.type = "password" THEN "togglePasswordVisibility" ELSE "onRightIconClick"

\* Input : a trailing element that a disabled field does not answer with
InputTogglePasswordVisibilityUnlessDisabled ==
    /\ component = "Input"
    /\ ~props.disabled
    /\ rightElementPresent(props)
    /\ rightIconHandler(props) = "togglePasswordVisibility"
    /\ clicks < MaxClicks
    /\ showPassword' = toggled(showPassword)
    /\ clicks' = clicks + 1
    /\ fieldLast' = Did("toggle", <<>>)
    /\ UNCHANGED <<elementFocused, component, props, isFocused, value, prevValue, classes, formVars, buttonVars, instances>>

\* Input : a click on the trailing element of a password field
InputTogglePasswordVisibility ==
    /\ component = "Input"
    /\ rightElementPresent(props)
    /\ rightIconHandler(props) = "togglePasswordVisibility"
    /\ clicks < MaxClicks
    /\ showPassword' = toggled(showPassword)
    /\ clicks' = clicks + 1
    /\ fieldLast' = Did("toggle", <<>>)
    /\ UNCHANGED <<elementFocused, component, props, isFocused, value, prevValue, classes, formVars, buttonVars, instances>>

\* Input : a click on the trailing element of any other field
InputRightIconClick ==
    /\ component = "Input"
    /\ rightElementPresent(props)
    /\ rightIconHandler(props) = "onRightIconClick"
    /\ fieldLast' = Did("rightIconClick",
                        IF props.onRightIconClick
                        THEN <<"onRightIconClick">>
                        ELSE <<>>)
    /\ UNCHANGED <<elementFocused, component, props, showPassword, isFocused, value, prevValue,
                   clicks, classes, formVars, buttonVars, instances>>

\* Input : a click on the leading element
InputLeftIconClick ==
    /\ component = "Input"
    /\ props.leftIcon
    /\ fieldLast' = Did("leftIconClick",
                        IF props.onLeftIconClick
                        THEN <<"onLeftIconClick">>
                        ELSE <<>>)
    /\ UNCHANGED <<elementFocused, component, props, showPassword, isFocused, value, prevValue,
                   clicks, classes, formVars, buttonVars, instances>>

\* PasswordInput : a click on the eye button
PasswordInputTogglePasswordVisibility ==
    /\ component = "PasswordInput"
    /\ clicks < MaxClicks
    /\ showPassword' = toggled(showPassword)
    /\ clicks' = clicks + 1
    /\ fieldLast' = Did("toggle", <<>>)
    /\ UNCHANGED <<elementFocused, component, props, isFocused, value, prevValue, classes, formVars, buttonVars, instances>>

\* Input : the onFocus and onBlur of the control element; the rest props,
\* with the caller's onFocus and onBlur among them, are spread after
\* onFocus={handleFocus} and onBlur={handleBlur}
elementOnFocus(p) == IF p.onFocus THEN "onFocus" ELSE "handleFocus"
elementOnBlur(p) == IF p.onBlur THEN "onBlur" ELSE "handleBlur"

\* a disabled element receives no focus
InputHandleFocus ==
    /\ component = "Input"
    /\ ~props.disabled
    /\ ~elementFocused
    /\ elementOnFocus(props) = "handleFocus"
    /\ elementFocused' = TRUE
    /\ isFocused' = TRUE
    /\ fieldLast' = Did("focus", IF props.onFocus THEN <<"onFocus">> ELSE <<>>)
    /\ UNCHANGED <<component, props, showPassword, value, prevValue, clicks, classes, formVars, buttonVars, instances>>

\* Input : a focus event on an element whose onFocus is the caller's
InputOnFocus ==
    /\ component = "Input"
    /\ ~props.disabled
    /\ ~elementFocused
    /\ elementOnFocus(props) = "onFocus"
    /\ elementFocused' = TRUE
    /\ fieldLast' = Did("focus", <<"onFocus">>)
    /\ UNCHANGED <<component, props, showPassword, isFocused, value, prevValue,
                   clicks, classes, formVars, buttonVars, instances>>

InputHandleBlurHidesPassword ==
    /\ component = "Input"
    /\ elementFocused
    /\ elementOnBlur(props) = "handleBlur"
    /\ elementFocused' = FALSE
    /\ isFocused' = FALSE
    /\ showPassword' = FALSE
    /\ fieldLast' = Did("blur", IF props.onBlur THEN <<"onBlur">> ELSE <<>>)
    /\ UNCHANGED <<component, props, value, prevValue, clicks, classes, formVars, buttonVars, instances>>
InputHandleBlur ==
    /\ component = "Input"
    /\ elementFocused
    /\ elementOnBlur(props) = "handleBlur"
    /\ elementFocused' = FALSE
    /\ isFocused' = FALSE
    /\ fieldLast' = Did("blur", IF props.onBlur THEN <<"onBlur">> ELSE <<>>)
    /\ UNCHANGED <<component, props, showPassword, value, prevValue, clicks, classes, formVars, buttonVars, instances>>

\* Input : a blur event on an element whose onBlur is the caller's
InputOnBlur ==
    /\ component = "Input"
    /\ elementFocused
    /\ elementOnBlur(props) = "onBlur"
    /\ elementFocused' = FALSE
    /\ fieldLast' = Did("blur", <<"onBlur">>)
    /\ UNCHANGED <<component, props, showPassword, isFocused, value, prevValue,
                   clicks, classes, formVars, buttonVars, instances>>

PasswordInputHandleFocus ==
    /\ component = "PasswordInput"
    /\ ~props.disabled
    /\ ~elementFocused
    /\ elementFocused' = TRUE
    /\ isFocused' = TRUE
    /\ fieldLast' = Did("focus", IF props.onFocus THEN <<"onFocus">> ELSE <<>>)
    /\ UNCHANGED <<component, props, showPassword, value, prevValue, clicks, classes, formVars, buttonVars, instances>>

PasswordInputHandleBlur ==
    /\ component = "PasswordInput"
    /\ elementFocused
    /\ elementFocused' = FALSE
    /\ isFocused' = FALSE
    /\ fieldLast' = Did("blur", IF props.onBlur THEN <<"onBlur">> ELSE <<>>)
    /\ UNCHANGED <<component, props, showPassword, value, prevValue, clicks, classes, formVars, buttonVars, instances>>

\* Input : a change event reaches the caller's onChange, which stores the
\* text; the control is rendered again with it
InputSetValue(text) ==
    /\ component = "Input"
    /\ ~props.disabled
    /\ text # value
    /\ value' = text
    /\ prevValue' = value
    /\ fieldLast' = Did("change", <<"onChange">>)
    /\ UNCHANGED <<elementFocused, component, props, showPassword, isFocused, clicks, classes,
                   formVars, buttonVars, instances>>

\* the parent renders the control again with another error prop
FieldSetError(error) ==
    /\ component \in {"Input", "PasswordInput"}
    /\ error # props.error
    /\ props' = [props EXCEPT !.error = error]
    /\ fieldLast' = Did("error", <<>>)
    /\ UNCHANGED <<elementFocused, component, showPassword, isFocused, value, prevValue, clicks,
                   classes, formVars, buttonVars, instances>>

\* the parent stores the text of a change event and renders the control again
PasswordInputSetValue(text) ==
    /\ component = "PasswordInput"
    /\ value' = text
    /\ prevValue' = value
    /\ fieldLast' = Did("change", <<>>)
    /\ UNCHANGED <<elementFocused, component, props, showPassword, isFocused, clicks, classes, formVars, buttonVars, instances>>

NextField ==
    \/ InputTogglePasswordVisibility
    \/ InputRightIconClick
    \/ InputLeftIconClick
    \/ PasswordInputTogglePasswordVisibility
    \/ InputHandleFocus
    \/ InputOnFocus
    \/ InputHandleBlur
    \/ InputOnBlur
    \/ PasswordInputHandleFocus
    \/ PasswordInputHandleBlur
    \/ \E text \in FieldTexts : InputSetValue(text)
    \/ \E text \in FieldTexts : PasswordInputSetValue(text)
    \/ \E error \in ErrorTexts : FieldSetError(error)

SpecField == InitField /\ [][NextField]_vars

-----------------------------------------------------------------------------
(* A PasswordInput with a strength meter, its value set by the parent *)

InitStrength ==
    /\ NoPage
    /\ NoButton
    /\ fieldLast = FieldMounted
    /\ classes = <<>>
    /\ elementFocused = FALSE
    /\ component = "PasswordInput"
    /\ props = [type |-> "password", disabled |-> FALSE, leftIcon |-> TRUE,
                rightIcon |-> FALSE, showStrengthMeter |-> TRUE,
                error |-> Undefined, helperText |-> "Hint",
                onLeftIconClick |-> FALSE, onRightIconClick |-> FALSE,
                onFocus |-> FALSE, onBlur |-> FALSE]
    /\ showPassword = FALSE
    /\ isFocused = FALSE
    /\ value = <<>>
    /\ prevValue = <<>>
    /\ clicks = 0

NextStrength == \E text \in Passwords : PasswordInputSetValue(text)

SpecStrength == InitStrength /\ [][NextStrength]_vars

-----------------------------------------------------------------------------
(* The class list of the control element of a field control *)

InputVariants == {"default", "filled", "outline", "underline", "gradient"}
InputSizes == {"xs", "sm", "md", "lg", "xl"}

\* class names a caller passes as className, '' among them
ClassNames == {<<>>, <<"resize-none">>, <<"w-1/2", "pl-2">>}

\* the props of an Input that its class list reads; resize is the prop of a
\* textarea, true when left out
InputStyleProps ==
    {p \in [type : InputTypes, variant : InputVariants, size : InputSizes,
            fullWidth : BOOLEAN, error : ErrorTexts, leftIcon : BOOLEAN,
            rightIcon : BOOLEAN, className : ClassNames, resize : BOOLEAN] :
        p.type # "textarea" => p.resize}

\* the props of a PasswordInput that its class list reads
PasswordInputStyleProps ==
    [type : {"password"}, variant : InputVariants, size : InputSizes,
     fullWidth : BOOLEAN, error : ErrorTexts, leftIcon : BOOLEAN,
     rightIcon : {FALSE}, className : ClassNames, resize : {TRUE}]

\* a control about to be rendered
InitStyle ==
    /\ NoPage
    /\ NoButton
    /\ fieldLast = FieldMounted
    /\ classes = <<>>
    /\ elementFocused = FALSE
    /\ component \in {"Input", "PasswordInput"}
    /\ props \in (IF component = "Input"
                  THEN InputStyleProps
                  ELSE PasswordInputStyleProps)
    /\ showPassword = FALSE
    /\ isFocused = FALSE
    /\ value = <<>>
    /\ prevValue = <<>>
    /\ clicks = 0

\* the class names of one block of a template, each with the block it is of;
\* an empty block leaves nothing in the trimmed, single-spaced string
Block(name, names) ==
    [i \in 1..Len(names) |-> [block |-> name, class |-> names[i]]]

\* the strings of the baseStyles, variants and sizes tables, by their keys
baseStyles == <<"baseStyles">>
variants(variant) == <<variant>>
sizes(size) == <<size>>

\* Input : inputClasses
inputClasses(p) ==
    Block("base", baseStyles)
    \o Block("variant", variants(p.variant))
    \o Block("size", sizes(p.size))
    \o Block("fullWidth", IF p.fullWidth THEN <<"w-full">> ELSE <<>>)
    \o Block("error", IF isTruthy(p.error)
                      THEN <<"border-red-500", "focus:border-red-500",
                             "focus:ring-red-200">>
                      ELSE <<>>)
    \o Block("leftIcon", IF p.leftIcon THEN <<"pl-10">> ELSE <<>>)
    \o Block("rightIcon", IF p.rightIcon \/ p.type = "password"
                          THEN <<"pr-10">>
                          ELSE <<>>)
    \o Block("className", p.className)

\* Input : the className of the textarea element
textareaClassName(p) ==
    inputClasses(p)
    \o Block("resize", IF ~p.resize THEN <<"resize-none">> ELSE <<"resize-y">>)

\* PasswordInput : inputClasses
passwordInputClasses(p) ==
    Block("base", baseStyles)
    \o Block("variant", variants(p.variant))
    \o Block("size", sizes(p.size))
    \o Block("fullWidth", IF p.fullWidth THEN <<"w-full">> ELSE <<>>)
    \o Block("error", IF isTruthy(p.error)
                      THEN <<"border-red-500", "focus:border-red-500",
                             "focus:ring-red-200">>
                      ELSE <<>>)
    \o Block("leftIcon", IF p.leftIcon THEN <<"pl-10">> ELSE <<>>)
    \o Block("rightIcon", <<"pr-10">>)
    \o Block("className", p.className)

\* the className attribute of the rendered control element
controlClassName ==
    IF component = "Input"
    THEN IF isTextareaProps(props)
         THEN textareaClassName(props)
         ELSE inputClasses(props)
    ELSE passwordInputClasses(props)

\* the first render of the control
FieldRender ==
    /\ component \in {"Input", "PasswordInput"}
    /\ classes = <<>>
    /\ elementFocused = FALSE
    /\ classes' = controlClassName
    /\ UNCHANGED <<elementFocused, component, props, showPassword, isFocused, value, prevValue,
                   clicks, fieldLast, formVars, buttonVars, instances>>

NextStyle == FieldRender

SpecStyle == InitStyle /\ [][NextStyle]_vars

-----------------------------------------------------------------------------
(* Two field controls of a demo page, each with its own state *)

InstanceIds == {1, 2}

\* the field controls of a page : component, type and the form field whose
\* value and change handler it is given, '' when it is given none
ControlsOf(p) ==
    IF p = "InputDemo"
    THEN {[component |-> "Input", type |-> "text", field |-> "name"],
          [component |-> "Input", type |-> "email", field |-> "email"],
          [component |-> "Input", type |-> "password", field |-> "password"],
          [component |-> "Input", type |-> "search", field |-> "search"],
          [component |-> "Input", type |-> "textarea", field |-> "message"],
          [component |-> "Input", type |-> "password", field |-> ""]}
    ELSE {[component |-> "PasswordInput", type |-> "password", field |-> f] :
             f \in {"basic", "withStrength", "form", ""}}

\* useState(false), twice, in every instance
Mount(control) ==
    [component |-> control.component, type |-> control.type,
     field |-> control.field, showPassword |-> FALSE, isFocused |-> FALSE]

\* a demo page right after its mount, two of its controls under observation
InitControls ==
    /\ page \in {"InputDemo", "PasswordInputDemo"}
    /\ formData = InitialData(page)
    /\ errors = EmptyMap
    /\ last = Mounted
    /\ nEvents = 0
    /\ NoField
    /\ NoButton
    /\ instances \in {m \in [InstanceIds -> {Mount(c) : c \in ControlsOf(page)}] :
                         m[1].field # m[2].field \/ m[1].field = ""}

\* the state setters of instance i
setIsFocusedOfAll(insts, i, focused) ==
    [j \in DOMAIN insts |-> [insts[j] EXCEPT !.isFocused = focused]]
setIsFocused(insts, i, focused) == [insts EXCEPT ![i].isFocused = focused]
setShowPassword(insts, i, show) == [insts EXCEPT ![i].showPassword = show]

\* handleFocus of instance i; one element of a document has the focus
InstanceHandleFocus(i) ==
    /\ \A j \in InstanceIds : ~instances[j].isFocused
    /\ instances' = setIsFocused(instances, i, TRUE)
    /\ UNCHANGED <<formVars, fieldVars, buttonVars>>

\* handleBlur of instance i
InstanceHandleBlur(i) ==
    /\ instances[i].isFocused
    /\ instances' = setIsFocused(instances, i, FALSE)
    /\ UNCHANGED <<formVars, fieldVars, buttonVars>>

\* togglePasswordVisibility of instance i
InstanceTogglePasswordVisibility(i) ==
    /\ instances[i].type = "password"
    /\ instances' = setShowPassword(instances, i, toggled(instances[i].showPassword))
    /\ UNCHANGED <<formVars, fieldVars, buttonVars>>

\* a change event on instance i reaches the change handler the page gave it
InstanceChange(i, text) ==
    /\ instances[i].field # ""
    /\ \/ InputDemoHandleInputChange(instances[i].field, text)
       \/ PasswordDemoHandlePasswordChange(instances[i].field, text)

NextControls ==
    \/ \E i \in InstanceIds : InstanceHandleFocus(i)
    \/ \E i \in InstanceIds : InstanceHandleBlur(i)
    \/ \E i \in InstanceIds : InstanceTogglePasswordVisibility(i)
    \/ \E i \in InstanceIds, text \in FieldTexts \cup {JohnExample} :
          InstanceChange(i, text)
    \/ InputDemoHandleClearSearch
    \/ InputDemoValidateForm
    \/ InputDemoClearForm
    \/ PasswordDemoValidatePasswords
    \/ PasswordDemoClear

SpecControls == InitControls /\ [][NextControls]_vars

-----------------------------------------------------------------------------
(* Button *)

ButtonTypes == {"button", "submit", "reset"}

\* the configurations of a Button; onClick, leftIcon and rightIcon say whether
\* the caller supplied one
ButtonProps ==
    [disabled : BOOLEAN, loading : BOOLEAN, onClick : BOOLEAN,
     leftIcon : BOOLEAN, rightIcon : BOOLEAN, type : ButtonTypes]

InitButton ==
    /\ NoPage
    /\ NoField
    /\ buttonProps \in ButtonProps
    /\ onClickCalls = <<>>
    /\ nClicks = 0

\* the disabled attribute of the rendered element
buttonDisabled(p) == p.disabled \/ p.loading

\* the children of the rendered element, in order
buttonChildrenKeepsRightIcon(p) ==
    (IF p.loading THEN <<"LoadingSpinner">> ELSE <<>>)
    \o (IF ~p.loading /\ p.leftIcon THEN <<"leftIcon">> ELSE <<>>)
    \o <<"children">>
    \o (IF p.rightIcon THEN <<"rightIcon">> ELSE <<>>)
buttonChildren(p) ==
    (IF p.loading THEN <<"LoadingSpinner">> ELSE <<>>)
    \o (IF ~p.loading /\ p.leftIcon THEN <<"leftIcon">> ELSE <<>>)
    \o <<"children">>
    \o (IF ~p.loading /\ p.rightIcon THEN <<"rightIcon">> ELSE <<>>)

\* handleClick : the events handed to onClick, after the handler ran on event
handleClickIgnoresLoading(p, event, calls) ==
    IF ~p.disabled /\ p.onClick THEN Append(calls, event) ELSE calls
handleClick(p, event, calls) ==
    IF ~p.disabled /\ ~p.loading /\ p.onClick
    THEN Append(calls, event)
    ELSE calls

\* a pointer click on the element : a disabled element dispatches no click
ButtonClick ==
    /\ nClicks < MaxButtonClicks
    /\ nClicks' = nClicks + 1
    /\ onClickCalls' =
          IF buttonDisabled(buttonProps)
          THEN onClickCalls
          ELSE handleClick(buttonProps, nClicks', onClickCalls)
    /\ UNCHANGED <<buttonProps, formVars, fieldVars, instances>>

\* the onClick of the rendered element invoked with a click event, whatever
\* its disabled attribute
ButtonHandleClick ==
    /\ nClicks < MaxButtonClicks
    /\ nClicks' = nClicks + 1
    /\ onClickCalls' = handleClick(buttonProps, nClicks', onClickCalls)
    /\ UNCHANGED <<buttonProps, formVars, fieldVars, instances>>

\* the parent renders the button again with other props
ButtonRender(p) ==
    /\ p # buttonProps
    /\ buttonProps' = p
    /\ UNCHANGED <<onClickCalls, nClicks, formVars, fieldVars, instances>>

NextButton ==
    \/ ButtonClick
    \/ ButtonHandleClick
    \/ \E p \in ButtonProps : ButtonRender(p)

SpecButton == InitButton /\ [][NextButton]_vars

-----------------------------------------------------------------------------
(* Properties of the form pages *)

\* an error is in effect on field f : its message is present and non-empty
InEffect(errs, f) == Truthy(errs, f)

\* the rules of each page, field by field
FailsRule(p, f, text) ==
    CASE f = "name" /\ p \in {"Signup", "InputDemo"} -> isBlank(text)
      [] f = "email" /\ p \in {"Signin", "Signup", "InputDemo"} ->
            isBlank(text) \/ ~emailPattern(text)
      [] f = "password" /\ p = "Signin" -> isBlank(text)
      [] f = "password" /\ p \in {"Signup", "InputDemo"} ->
            isBlank(text) \/ Len(text) < 6
      [] f = "form" /\ p = "PasswordInputDemo" ->
            isBlank(text) \/ Len(text) < 8 \/ ~mixedPattern(text)
      [] OTHER -> FALSE

FailingFields(p, data) == {f \in FieldsOf(p) : FailsRule(p, f, data[f])}

TooShortMessages == {"Min 6 characters", "Password must be at least 6 characters"}

InvalidEmailMessages == {"Invalid email", "Please enter a valid email"}

\* text has an '@' that is followed, somewhere later, by a '.'
HasAtThenDot(text) ==
    \E a \in 1..Len(text), d \in 1..Len(text) :
        a < d /\ text[a] = "@" /\ text[d] = "."

\* C1: on every page a change event on field f carrying text v sets f's value
\* to v and leaves f with no error in effect; a change evaluates no rule, so
\* an error comes into effect on a field only in a submit/validate step.
C1_ChangeClearsOptimistically ==
    [][ /\ last'.op = "change" =>
            /\ formData'[last'.field] = last'.text
            /\ ~InEffect(errors', last'.field)
        /\ \A f \in FieldsOf(page) :
            (~InEffect(errors, f) /\ InEffect(errors', f)) => last'.op = "submit"
      ]_vars

\* a change has just cleared the error of a field and stored a non-empty text
C1_Witness ==
    /\ last.op = "change"
    /\ last.hadError
    /\ last.text # <<>>
    /\ formData[last.field] = last.text
    /\ ~InEffect(errors, last.field)

\* C2: after a submit/validate the error map has an entry, with a non-empty
\* message, for exactly the fields whose current value fails a rule of the
\* page; no entry of the previous map survives for a field that now passes.
C2_SubmitReplacesErrorMap ==
    last.op = "submit" =>
        /\ Keys(errors) = FailingFields(page, formData)
        /\ \A f \in Keys(errors) : errors[f] # ""

\* a submit dropped the entry of a field that passes, other fields still fail
C2_Witness ==
    /\ last.op = "submit"
    /\ \E f \in last.prevKeys : f \notin Keys(errors)
    /\ Keys(errors) # {}

\* C3: in Signin and Signup a submit logs success if and only if the error
\* map it has just produced is empty, whatever the previous map held; no
\* other handler logs success.
C3_SuccessIffNoNewErrors ==
    /\ (last.op = "submit" /\ page \in {"Signin", "Signup"}) =>
           (last.logged <=> Keys(errors) = {})
    /\ last.op # "submit" => ~last.logged

\* a submit succeeded although the previous error map had entries
C3_Witness ==
    /\ last.op = "submit"
    /\ page \in {"Signin", "Signup"}
    /\ last.logged
    /\ last.prevKeys # {}

\* C4 as stated: after a change of a field that had an error, the field is
\* no longer a key of the error map.
C4_EntryRemoved ==
    (last.op = "change" /\ last.hadError) => last.field \notin Keys(errors)

\* C4: after a change of a field that had an error, the field is still a key
\* of the error map and its message is the empty string; the keys of the map
\* are those it had before the change.
C4_EntryEmptied ==
    (last.op = "change" /\ last.hadError) =>
        /\ last.field \in Keys(errors)
        /\ errors[last.field] = ""
        /\ Keys(errors) = last.prevKeys

\* a change has emptied the entry of a field that had an error
C4_Witness ==
    /\ last.op = "change"
    /\ last.hadError
    /\ last.field \in Keys(errors)
    /\ errors[last.field] = ""

\* C5 as stated: in Signin, Signup and InputDemo a non-blank password of
\* length 5 gets a 'too short' message and one of length 6 gets no error.
C5_MinimumSixEverywhere ==
    (last.op = "submit" /\ page \in {"Signin", "Signup", "InputDemo"}
        /\ ~isBlank(formData.password)) =>
        /\ Len(formData.password) = 5 =>
              /\ "password" \in Keys(errors)
              /\ errors.password \in TooShortMessages
        /\ Len(formData.password) = 6 => "password" \notin Keys(errors)

\* C5: in Signup and InputDemo a non-blank password of length 5 gets the
\* 'too short' message and one of length 6 gets no error; Signin has no
\* minimum length, there every non-blank password gets no error.
C5_MinimumSixSignupAndDemo ==
    (last.op = "submit" /\ page \in {"Signin", "Signup", "InputDemo"}
        /\ ~isBlank(formData.password)) =>
        /\ page \in {"Signup", "InputDemo"} =>
              /\ Len(formData.password) = 5 =>
                    /\ "password" \in Keys(errors)
                    /\ errors.password \in TooShortMessages
              /\ Len(formData.password) = 6 => "password" \notin Keys(errors)
        /\ page = "Signin" => "password" \notin Keys(errors)

\* Signup has rejected a password of length 5 as too short
C5_Witness ==
    /\ last.op = "submit"
    /\ page = "Signup"
    /\ Len(formData.password) = 5
    /\ "password" \in Keys(errors)
    /\ errors.password = "Min 6 characters"

\* C6: a Signup submit with an empty name, an empty email and a password of
\* three characters leaves exactly the three entries name, email and
\* password, each with a message, and logs no success.
C6_ThreeErrors ==
    (last.op = "submit" /\ page = "Signup"
        /\ formData.name = <<>> /\ formData.email = <<>>
        /\ Len(formData.password) = 3) =>
        /\ Keys(errors) = {"name", "email", "password"}
        /\ \A f \in Keys(errors) : errors[f] # ""
        /\ ~last.logged

\* such a submit, with a non-blank password, has produced the three entries
C6_Witness ==
    /\ last.op = "submit"
    /\ page = "Signup"
    /\ formData.name = <<>>
    /\ formData.email = <<>>
    /\ Len(formData.password) = 3
    /\ ~isBlank(formData.password)
    /\ Cardinality(Keys(errors)) = 3

\* C7: the validators of Signin, Signup and InputDemo accept the email
\* john@example.com, reject john, and give the invalid-format message to every
\* non-blank email without an '@' followed later by a '.'.
C7_EmailShape ==
    (last.op = "submit" /\ page \in {"Signin", "Signup", "InputDemo"}) =>
        /\ formData.email = JohnExample => "email" \notin Keys(errors)
        /\ (~isBlank(formData.email) /\ ~HasAtThenDot(formData.email)) =>
              /\ "email" \in Keys(errors)
              /\ errors.email \in InvalidEmailMessages
        /\ formData.email = <<"j","o","h","n">> =>
              /\ "email" \in Keys(errors)
              /\ errors.email \in InvalidEmailMessages

\* an email with an '@' and no '.' after it has been rejected as invalid
C7_Witness ==
    /\ last.op = "submit"
    /\ page \in {"Signin", "Signup", "InputDemo"}
    /\ hasChar(formData.email, {"@"})
    /\ ~HasAtThenDot(formData.email)
    /\ ~isBlank(formData.email)
    /\ "email" \in Keys(errors)
    /\ errors.email \in InvalidEmailMessages

-----------------------------------------------------------------------------
(* Properties of the field controls *)

\* the control is a password field
IsPasswordField ==
    component = "PasswordInput" \/ (component = "Input" /\ props.type = "password")

\* C8: after n clicks on the visibility toggle of a password field, counted
\* from its creation, the rendered type is 'password' when n is even and
\* 'text' when n is odd, for Input with type 'password' and for PasswordInput.
C8_ToggleParity ==
    IsPasswordField =>
        renderedType = (IF clicks % 2 = 0 THEN "password" ELSE "text")

\* an Input of type password shows plain text after three clicks
C8_Witness ==
    /\ component = "Input"
    /\ props.type = "password"
    /\ clicks = 3
    /\ renderedType = "text"

-----------------------------------------------------------------------------
(* Properties of the strength estimator *)

\* the criteria a password satisfies
Criteria(password) ==
    {c \in {"len8", "len12", "lower", "upper", "digit", "symbol"} :
        CASE c = "len8" -> Len(password) >= 8
          [] c = "len12" -> Len(password) >= 12
          [] c = "lower" -> \E k \in 1..Len(password) : password[k] \in Lower
          [] c = "upper" -> \E k \in 1..Len(password) : password[k] \in Upper
          [] c = "digit" -> \E k \in 1..Len(password) : password[k] \in Digit
          [] c = "symbol" ->
                \E k \in 1..Len(password) :
                    /\ password[k] \notin Lower
                    /\ password[k] \notin Upper
                    /\ password[k] \notin Digit}

AllCriteria == {"len8", "len12", "lower", "upper", "digit", "symbol"}

\* C9: of two non-empty passwords, the second satisfying every criterion the
\* first satisfies, the second scores at least as much as the first.
C9_ScoreMonotone ==
    (prevValue # <<>> /\ value # <<>>
        /\ Criteria(prevValue) \subseteq Criteria(value)) =>
        calculatePasswordStrength(prevValue).score
            <= calculatePasswordStrength(value).score

\* the second password satisfies strictly more criteria and scores strictly more
C9_Witness ==
    /\ prevValue # <<>>
    /\ Criteria(prevValue) \subseteq Criteria(value)
    /\ Criteria(prevValue) # Criteria(value)
    /\ "len12" \in Criteria(value)
    /\ calculatePasswordStrength(prevValue).score
           < calculatePasswordStrength(value).score

\* C10: the score is an integer from 0 to 100, and it is 100 exactly when
\* the password satisfies all six criteria.
C10_ScoreRange ==
    /\ strength.score \in 0..100
    /\ strength.score = 100 <=> Criteria(value) = AllCriteria

\* a password that satisfies all six criteria scores 100
C10_Witness ==
    /\ Criteria(value) = AllCriteria
    /\ strength.score = 100

\* the band of a score : its label and its colour token
BandOf(score) ==
    IF score < 30 THEN <<"Weak", "bg-red-500">>
    ELSE IF score < 60 THEN <<"Fair", "bg-yellow-500">>
    ELSE IF score < 80 THEN <<"Good", "bg-blue-500">>
    ELSE <<"Strong", "bg-green-500">>

\* the labels given to the non-empty passwords
LabelsReached ==
    {calculatePasswordStrength(password).label : password \in Passwords \ {<<>>}}

\* C11: for a non-empty password the label and the colour are those of the
\* band of its score (below 30 Weak, below 60 Fair, below 80 Good, else
\* Strong), each band with its own colour, and every band is the band of
\* some password.
C11_Bands ==
    /\ value # <<>> =>
          <<strength.label, strength.color>> = BandOf(strength.score)
    /\ LabelsReached = {"Weak", "Fair", "Good", "Strong"}

\* a password at the lower limit of Good follows one at the lower limit of Fair
C11_Witness ==
    /\ calculatePasswordStrength(prevValue).score = 30
    /\ calculatePasswordStrength(prevValue).label = "Fair"
    /\ strength.score = 60
    /\ strength.label = "Good"
    /\ strength.color = "bg-blue-500"

\* C12: a click on a Button never invokes onClick while disabled or loading
\* is true, whatever the other props are; with both false the supplied
\* onClick is invoked exactly once, with the event of that click.
C12_ClickSuppressed ==
    [][nClicks' = nClicks + 1 =>
          IF buttonProps.disabled \/ buttonProps.loading
          THEN onClickCalls' = onClickCalls
          ELSE onClickCalls' =
                  IF buttonProps.onClick
                  THEN Append(onClickCalls, nClicks')
                  ELSE onClickCalls]_vars

\* three clicks, the second alone was handed to onClick, the button is busy
C12_Witness ==
    /\ nClicks = 3
    /\ onClickCalls = <<2>>
    /\ buttonProps.loading
    /\ ~buttonProps.disabled
    /\ buttonProps.onClick

-----------------------------------------------------------------------------
(* Properties of the field controls *)

\* C13: an Input whose type is 'textarea' renders the multi-line element and
\* an Input of any other type renders the single-line element, whatever its
\* other props and its focused and password-visible flags are; each render
\* takes exactly one of the two paths.
C13_KindDispatch ==
    component = "Input" =>
        /\ renderInput.tag \in {"textarea", "input"}
        /\ props.type = "textarea" => renderInput.tag = "textarea"
        /\ props.type # "textarea" => renderInput.tag = "input"

\* a focused multi-line control with both decorations
C13_Witness ==
    /\ component = "Input"
    /\ props.type = "textarea"
    /\ props.leftIcon
    /\ props.rightIcon
    /\ isFocused
    /\ renderInput.tag = "textarea"

\* a string prop is supplied and not empty
NonEmpty(x) == x # Undefined /\ x # ""

\* C14: the message block shows the error when the error is non-empty, with
\* or without a helper text; it shows the helper text when only the helper
\* text is non-empty, also right after the error was cleared to ''; no block
\* is rendered when both are empty or left out.  Input and PasswordInput.
C14_MessageBlock ==
    component \in {"Input", "PasswordInput"} =>
        /\ NonEmpty(props.error) => messageBlock = props.error
        /\ ~NonEmpty(props.error) /\ NonEmpty(props.helperText) =>
              messageBlock = props.helperText
        /\ ~NonEmpty(props.error) /\ ~NonEmpty(props.helperText) =>
              messageBlock = Undefined

\* the error of an Input was cleared to '' and its helper text shows again
C14_Witness ==
    /\ component = "Input"
    /\ fieldLast.op = "error"
    /\ fieldLast.error = "Required"
    /\ props.error = ""
    /\ props.helperText = "Hint"
    /\ messageBlock = "Hint"

\* C15: a click on the left decoration of an Input hands the event to
\* onLeftIconClick, a click on the right decoration of an Input that is not a
\* password field hands it to onRightIconClick, each once, and neither changes
\* the focused or the password-visible flag; a click on the trailing element
\* of a password field flips password-visible and calls nothing of the
\* caller, onRightIconClick supplied or not.
C15_IconClicks ==
    [][/\ fieldLast'.op = "leftIconClick" =>
            /\ props.leftIcon
            /\ fieldLast'.calls =
                 (IF props.onLeftIconClick THEN <<"onLeftIconClick">> ELSE <<>>)
            /\ UNCHANGED <<showPassword, isFocused>>
       /\ fieldLast'.op = "rightIconClick" =>
            /\ props.type # "password"
            /\ props.rightIcon
            /\ fieldLast'.calls =
                 (IF props.onRightIconClick THEN <<"onRightIconClick">> ELSE <<>>)
            /\ UNCHANGED <<showPassword, isFocused>>
       /\ fieldLast'.op = "toggle" =>
            /\ IsPasswordField
            /\ showPassword' = ~showPassword
            /\ fieldLast'.calls = <<>>
            /\ UNCHANGED isFocused]_vars

\* the trailing element of a password Input that was given a right icon and an
\* onRightIconClick was clicked : the password shows and nothing was called
C15_Witness ==
    /\ component = "Input"
    /\ props.type = "password"
    /\ props.rightIcon
    /\ props.onRightIconClick
    /\ fieldLast.op = "toggle"
    /\ fieldLast.calls = <<>>
    /\ showPassword

\* C16: a field control starts not focused and with its password hidden;
\* password-visible changes only in a toggle, which leaves focused alone;
\* focused changes only in a focus or a blur, which leave password-visible
\* alone; a change event, an icon callback, a new value and a new error prop
\* change neither flag.
C16_InteractionState ==
    /\ ~isFocused /\ ~showPassword
    /\ [][/\ showPassword' # showPassword =>
               fieldLast'.op = "toggle" /\ isFocused' = isFocused
          /\ isFocused' # isFocused =>
               fieldLast'.op \in {"focus", "blur"} /\ showPassword' = showPassword
          /\ fieldLast'.op \in {"change", "error", "leftIconClick", "rightIconClick"} =>
               UNCHANGED <<showPassword, isFocused>>]_vars

\* a new error prop reached a focused control whose password shows
C16_Witness ==
    /\ fieldLast.op = "error"
    /\ isFocused
    /\ showPassword
    /\ props.error = "Required"

\* C17: in the class list of the rendered control element every class name of
\* the caller's className comes after every class name of a computed block :
\* base, variant, size, full width, error, left and right padding and, for
\* the multi-line control, resize.
C17_ClassNameLast ==
    \A i \in 1..Len(classes), j \in 1..Len(classes) :
        classes[i].block = "className" /\ classes[j].block # "className" => j < i

-----------------------------------------------------------------------------
(* Properties of the demo pages *)

\* the message 'Password must be at least 8 characters'
AtLeastEight == "Password must be at least 8 characters"

\* C18: the validator of the strength-meter form gives a non-blank password
\* of 7 characters the 'at least 8 characters' message; a password of 8 or
\* more characters never gets that message, and when it is rejected it lacks
\* a lowercase letter, an uppercase letter or a digit.
C18_EightMinimum ==
    page = "PasswordInputDemo" /\ last.op = "submit" =>
        LET password == formData.form
        IN  /\ ~isBlank(password) /\ Len(password) = 7 =>
                  Truthy(errors, "form") /\ errors.form = AtLeastEight
            /\ Len(password) >= 8 =>
                  /\ Truthy(errors, "form") => errors.form # AtLeastEight
                  /\ Truthy(errors, "form") =>
                        \/ ~hasChar(password, Lower)
                        \/ ~hasChar(password, Upper)
                        \/ ~hasChar(password, Digit)

\* C19: the reset of a demo form (Clear Form, Clear) leaves, in one step and
\* from whatever state the form was in, every field value empty and the error
\* map without entries : the state of the page at its mount.
C19_ResetToMount ==
    last.op = "clear" =>
        /\ page \in {"InputDemo", "PasswordInputDemo"}
        /\ DOMAIN formData = FieldsOf(page)
        /\ \A f \in FieldsOf(page) : formData[f] = <<>>
        /\ DOMAIN errors = {}

\* Clear Form was clicked while the error map of InputDemo had entries
C19_Witness ==
    /\ page = "InputDemo"
    /\ last.op = "clear"
    /\ last.prevKeys # {}
    /\ nEvents >= 3

\* C20: a submit is possible in every state and works from the current
\* values alone : the fields with an entry in the map it produces are the
\* fields whose value fails now, whatever the previous map was; a second
\* submit right after a first produces the same map and the same success
\* signal; and once every value passes, the next submit of Signin or Signup
\* leaves no error and signals success, also after a submit that failed.
C20_SubmitFromCurrentValues ==
    /\ [](nEvents < MaxEvents => ENABLED Submit)
    /\ [][last'.op = "submit" =>
            /\ formData' = formData
            /\ Keys(errors') = FailingFields(page, formData)
            /\ last.op = "submit" =>
                  errors' = errors /\ last'.logged = last.logged
            /\ page \in {"Signin", "Signup"} =>
                  (last'.logged <=> FailingFields(page, formData) = {})]_vars

\* Signin was submitted with no password, the password was then entered and
\* the next submit succeeded
C20_Witness ==
    /\ page = "Signin"
    /\ last.op = "submit"
    /\ "password" \in last.prevKeys
    /\ DOMAIN errors = {}
    /\ last.logged

\* C21: after a focus event on the control element focused is true and after
\* a blur event it is false, with or without an onFocus or onBlur of the
\* caller; an onFocus or onBlur of the caller is called once for the event.
\* Input, single-line and multi-line, and PasswordInput.
C21_FocusTracked ==
    /\ fieldLast.op = "focus" =>
          /\ isFocused
          /\ fieldLast.calls = (IF props.onFocus THEN <<"onFocus">> ELSE <<>>)
    /\ fieldLast.op = "blur" =>
          /\ ~isFocused
          /\ fieldLast.calls = (IF props.onBlur THEN <<"onBlur">> ELSE <<>>)

-----------------------------------------------------------------------------
(* Further properties of the form pages *)

\* C22: a change event on field f stores its text as the value of f and
\* leaves the value and the error entry of every other field as they were,
\* so each field holds the text of its most recent change, also when the
\* previous event was a change of another field.
C22_ChangeFrame ==
    [][last'.op = "change" =>
          /\ DOMAIN formData' = DOMAIN formData
          /\ formData'[last'.field] = last'.text
          /\ \A g \in (DOMAIN formData \cup DOMAIN errors \cup DOMAIN errors')
                        \ {last'.field} :
                /\ g \in DOMAIN formData => formData'[g] = formData[g]
                /\ g \in DOMAIN errors' <=> g \in DOMAIN errors
                /\ g \in DOMAIN errors => errors'[g] = errors[g]]_vars

\* two changes of different fields in a row, the error of a third field
\* still in effect
C22_Witness ==
    /\ last.op = "change"
    /\ last.text # <<>>
    /\ \E g \in DOMAIN formData \ {last.field} : formData[g] # <<>>
    /\ \E h \in DOMAIN errors \ {last.field} : errors[h] # ""
    /\ nEvents = 4

\* C23: with two field controls on a page, a focus, blur or toggle event on
\* one of them changes no flag of the other and nothing of the page's values
\* and error map; the values and the error map change only in a handler the
\* page passed to a control or a button (change, clear search, validate,
\* clear), and such a handler changes no flag of any control.
C23_StateOwned ==
    [][/\ instances' # instances =>
            /\ \E i \in InstanceIds :
                  \A j \in InstanceIds \ {i} : instances'[j] = instances[j]
            /\ UNCHANGED <<formData, errors>>
       /\ (formData' # formData \/ errors' # errors) =>
            /\ last'.op \in {"change", "clearSearch", "submit", "clear"}
            /\ nEvents' = nEvents + 1
            /\ instances' = instances]_vars

\* the first control has the focus, the password of the second shows, and
\* the page holds a value and an error
C23_Witness ==
    /\ instances # <<>>
    /\ instances[1].isFocused
    /\ ~instances[1].showPassword
    /\ instances[2].showPassword
    /\ ~instances[2].isFocused
    /\ \E f \in DOMAIN formData : formData[f] # <<>>
    /\ \E f \in DOMAIN errors : errors[f] # ""

-----------------------------------------------------------------------------
(* Further properties of the button *)

\* x is among the rendered children of the button
Renders(x) ==
    \E k \in 1..Len(buttonChildren(buttonProps)) : buttonChildren(buttonProps)[k] = x

\* C24: a loading Button renders the loading indicator and neither
\* decoration, and its element is disabled; a Button that is not loading
\* renders no indicator and renders each decoration it was given; the
\* disabled attribute of the element is (disabled or loading).
C24_BusyButton ==
    /\ buttonProps.loading =>
          /\ Renders("LoadingSpinner")
          /\ ~Renders("leftIcon")
          /\ ~Renders("rightIcon")
          /\ buttonDisabled(buttonProps)
    /\ ~buttonProps.loading =>
          /\ ~Renders("LoadingSpinner")
          /\ Renders("leftIcon") <=> buttonProps.leftIcon
          /\ Renders("rightIcon") <=> buttonProps.rightIcon
    /\ buttonDisabled(buttonProps) <=> (buttonProps.disabled \/ buttonProps.loading)

\* a button with both decorations went busy after a click was handled
C24_Witness ==
    /\ onClickCalls = <<1>>
    /\ buttonProps.loading
    /\ buttonProps.leftIcon
    /\ buttonProps.rightIcon
    /\ ~buttonProps.disabled
    /\ buttonChildren(buttonProps) = <<"LoadingSpinner", "children">>

-----------------------------------------------------------------------------
(* Further properties of the validators *)

\* text is empty or has whitespace characters only
OnlyWhitespace(text) == \A k \in 1..Len(text) : text[k] \in Whitespace

\* the fields a validator of the page looks at
ValidatedFields(p) ==
    CASE p = "Signin" -> {"email", "password"}
      [] p \in {"Signup", "InputDemo"} -> {"name", "email", "password"}
      [] p = "PasswordInputDemo" -> {"form"}

RequiredMessages == {"Name is required", "Email is required", "Password is required"}

\* C25: a validation leaves at most one message per field, only on fields
\* it validates; a value that is empty or all whitespace gets the 'required'
\* message, never an invalid-format or too-short one, and a value with a
\* non-whitespace character never gets the 'required' message.
C25_RequiredFirst ==
    last.op = "submit" =>
        /\ DOMAIN errors \subseteq ValidatedFields(page)
        /\ \A f \in ValidatedFields(page) :
              IF OnlyWhitespace(formData[f])
              THEN f \in DOMAIN errors /\ errors[f] \in RequiredMessages
              ELSE f \in DOMAIN errors => errors[f] \notin RequiredMessages

\* a password of three spaces was reported as required
C25_Witness ==
    /\ last.op = "submit"
    /\ page = "InputDemo"
    /\ formData.password = <<" ", " ", " ">>
    /\ errors.password = "Password is required"

\* C26: a password that validatePasswords accepts (it leaves no error for
\* it) has a strength score of at least 70 and so the label Good or Strong,
\* never Weak or Fair.
C26_AcceptedIsGood ==
    (page = "PasswordInputDemo" /\ last.op = "submit"
        /\ "form" \notin DOMAIN errors) =>
        /\ calculatePasswordStrength(formData.form).score >= 70
        /\ calculatePasswordStrength(formData.form).label \in {"Good", "Strong"}

\* an accepted password of eight characters with no symbol scores just 70
C26_Witness ==
    /\ page = "PasswordInputDemo"
    /\ last.op = "submit"
    /\ "form" \notin DOMAIN errors
    /\ Len(formData.form) = 8
    /\ calculatePasswordStrength(formData.form).score = 70
    /\ calculatePasswordStrength(formData.form).label = "Good"

-----------------------------------------------------------------------------
(* Further properties of the strength estimator *)

\* the points of the character classes found in a password
VarietyPoints(password) ==
    15 * Cardinality(Criteria(password) \cap {"lower", "upper", "digit"})
    + (IF "symbol" \in Criteria(password) THEN 20 ELSE 0)

\* C27: the strength is score 0 with an empty label and an empty colour for
\* the empty password and for no other; a non-empty password scores at least
\* 15 and has a label; the points a password gets for its length are 0, 25
\* or 35, never the 10 of the 12-character bonus alone.
C27_EmptyAndFloor ==
    /\ strength = [score |-> 0, label |-> "", color |-> ""] <=> value = <<>>
    /\ value # <<>> =>
          /\ strength.score >= 15
          /\ strength.label # ""
          /\ strength.score - VarietyPoints(value) \in {0, 25, 35}
          /\ Len(value) >= 12 <=> strength.score - VarietyPoints(value) = 35

\* a single symbol after a password of twelve characters
C27_Witness ==
    /\ Len(prevValue) = 12
    /\ calculatePasswordStrength(prevValue).score - VarietyPoints(prevValue) = 35
    /\ Len(value) = 1
    /\ "symbol" \in Criteria(value)
    /\ strength.score = 20
    /\ strength.label = "Weak"

\* C28: a change event on a field that has no error in effect, its entry
\* missing or the empty string, leaves the error map as it was : no entry is
\* added, removed or altered.
C28_NoErrorNoWrite ==
    [][(last'.op = "change"
          /\ (last'.field \notin DOMAIN errors \/ errors[last'.field] = "")) =>
            errors' = errors]_vars

\* a change of a field that has no entry, while another field has one
C28_Witness ==
    /\ last.op = "change"
    /\ ~last.hadError
    /\ last.field \notin DOMAIN errors
    /\ \E g \in DOMAIN errors : errors[g] # ""
    /\ last.prevKeys = DOMAIN errors

\* text has a run of non-whitespace characters with an '@' after its first
\* character and, at least two places later, a '.' before its last character
HasEmailFragment(text) ==
    \E i \in 1..Len(text), j \in 1..Len(text) :
        /\ \A k \in i..j : text[k] \notin Whitespace
        /\ \E a \in (i + 1)..j, d \in (i + 1)..(j - 1) :
              text[a] = "@" /\ text[d] = "." /\ d >= a + 2

\* C29: the email check of Signin, Signup and InputDemo is a search : a
\* non-blank email passes exactly when it has, somewhere inside, non-space
\* characters, '@', non-space characters, '.', non-space characters; spaces
\* or other words before, after or around such a part do not matter, and
\* "x y@z.w q" passes.
C29_EmailUnanchored ==
    (last.op = "submit" /\ page \in {"Signin", "Signup", "InputDemo"}
        /\ ~OnlyWhitespace(formData.email)) =>
        /\ "email" \notin DOMAIN errors <=> HasEmailFragment(formData.email)
        /\ formData.email \in EmailExamples => "email" \notin DOMAIN errors

\* "x y@z.w q" was submitted as the email and got no error
C29_Witness ==
    /\ last.op = "submit"
    /\ page \in {"Signin", "Signup", "InputDemo"}
    /\ formData.email = <<"x", " ", "y", "@", "z", ".", "w", " ", "q">>
    /\ "email" \notin DOMAIN errors

\* C30: disabled does not reach the trailing element or the decorations : on
\* a disabled password field (Input of type password, or PasswordInput) a
\* click on the visibility toggle can happen and flips password-visible, and
\* on a disabled Input a click on a left or right decoration that is present
\* can happen and calls the caller's callback for it.
C30_DisabledNotGating ==
    props.disabled =>
        /\ (IsPasswordField /\ clicks < MaxClicks) =>
              ENABLED (/\ InputTogglePasswordVisibility
                          \/ PasswordInputTogglePasswordVisibility
                       /\ showPassword' = ~showPassword)
        /\ (component = "Input" /\ props.leftIcon /\ props.onLeftIconClick) =>
              ENABLED (/\ InputLeftIconClick
                       /\ fieldLast'.calls = <<"onLeftIconClick">>)
        /\ (component = "Input" /\ props.type # "password"
               /\ props.rightIcon /\ props.onRightIconClick) =>
              ENABLED (/\ InputRightIconClick
                       /\ fieldLast'.calls = <<"onRightIconClick">>)

\* the toggle of a disabled password field was clicked and the password
\* shows
C30_Witness ==
    /\ props.disabled
    /\ IsPasswordField
    /\ fieldLast.op = "toggle"
    /\ showPassword

====
